---- MODULE Spec2Model ----
(***************************************************************************)
(* Model of src/app.py: the KSEI ownership-flow dashboard.                 *)
(*                                                                         *)
(* load_data (lines 54-121) turns the raw CSV table into the normalized    *)
(* dataset; the calculation functions (lines 128-226) aggregate a slice of *)
(* it.  The model follows load_data statement by statement (the local df   *)
(* is a variable of its own, the returned triple another), and applies the *)
(* calculation functions to the year slice the script builds.              *)
(*                                                                         *)
(* Representation.  A Python string is a sequence of atoms: single         *)
(* characters for numeric cells (<<"1", ",", "0">> is "1,0"), words for    *)
(* labels and column names (<<"Local", "IS", "_chg">> is 'Local IS_chg').  *)
(* A cell read_csv found empty is NaN.  Numbers are integers: decimal      *)
(* fractions and float rounding are outside the model.                     *)
(***************************************************************************)
EXTENDS Integers, Sequences, FiniteSets, TLC

VARIABLES
    raw,        \* the CSV file on the drive: [cols, rows]
    build,      \* what astype(str) does to a missing value in this pandas build
    pc,         \* position of the script / of load_data
    df,         \* load_data's local df: [cols, rows]
    fileId,     \* load_data's local file_id ("" until the listing returned one)
    ret,        \* what load_data returned: [df, status]
    diag,       \* st.error raised inside load_data for a missing 'Sec. Num'
    shown,      \* what the script has reported: "toast", "error", "warning"
    picked,     \* what the year multiselect returned
    selected_years, \* the years the filter uses
    sel,        \* df_filtered_by_year
    out         \* the last calculation call: [fn, ...arguments, ...result]

vars == <<raw, build, pc, df, fileId, ret, diag, shown, picked, selected_years, sel, out>>

-----------------------------------------------------------------------------
(* Bounds of the model *)

MaxRows == 2

-----------------------------------------------------------------------------
(* Configuration: src/app.py lines 31-35 *)

OWNERSHIP_COLS ==
    << <<"Local", "IS">>, <<"Local", "CP">>, <<"Local", "PF">>,
       <<"Local", "IB">>, <<"Local", "ID">>, <<"Local", "MF">>,
       <<"Local", "SC">>, <<"Local", "FD">>, <<"Local", "OT">>,
       <<"Foreign", "IS">>, <<"Foreign", "CP">>, <<"Foreign", "PF">>,
       <<"Foreign", "IB">>, <<"Foreign", "ID">>, <<"Foreign", "MF">>,
       <<"Foreign", "SC">>, <<"Foreign", "FD">>, <<"Foreign", "OT">> >>

\* f"{col}_chg"
Chg(col) == Append(col, "_chg")

OWNERSHIP_CHG_COLS == [i \in DOMAIN OWNERSHIP_COLS |-> Chg(OWNERSHIP_COLS[i])]

-----------------------------------------------------------------------------
(* Sequence and string helpers *)

Range(s) == {s[i] : i \in DOMAIN s}

\* sub in s, for a one-atom sub
Contains(s, atom) == \E i \in DOMAIN s : s[i] = atom

\* s.replace(atom, '')
Remove(s, atom) == SelectSeq(s, LAMBDA a : a # atom)

RECURSIVE LStrip(_)
LStrip(s) == IF s # <<>> /\ Head(s) = " " THEN LStrip(Tail(s)) ELSE s

RECURSIVE RStrip(_)
RStrip(s) ==
    IF s # <<>> /\ s[Len(s)] = " " THEN RStrip(SubSeq(s, 1, Len(s) - 1)) ELSE s

\* str.strip()
Strip(s) == RStrip(LStrip(s))

RECURSIVE SeqSum(_)
SeqSum(s) == IF s = <<>> THEN 0 ELSE Head(s) + SeqSum(Tail(s))

\* NaN / None: a missing cell.  read_csv turns the empty field into it, so no
\* cell of the raw table is the empty string.
NaN == <<"NaN">>
IsNa(v) == v = NaN

\* NaT: a date that did not parse
NaT == <<>>

-----------------------------------------------------------------------------
(* Column names of the snapshot file (spec section 6, src/app.py 90-93) *)

DATE == <<"Date">>
CODE == <<"Code">>
SECTOR == <<"Sector">>
TOP_BUYER == <<"Top_Buyer">>
TOP_SELLER == <<"Top_Seller">>
TOP_BUYER_VOL == <<"Top_Buyer_Vol">>
TOP_SELLER_VOL == <<"Top_Seller_Vol">>
SEC_NUM == <<"Sec. Num">>
TOTAL_LOCAL == <<"Total", "_", "Local">>
TOTAL_FOREIGN == <<"Total", "_", "Foreign">>

\* 'Total_Local_chg', 'Total_Foreign_chg', 'Total_chg' (lines 112-114)
TOTAL_LOCAL_CHG == Chg(TOTAL_LOCAL)
TOTAL_FOREIGN_CHG == Chg(TOTAL_FOREIGN)
TOTAL_CHG == Chg(<<"Total">>)

\* lines 90-93
cols_to_numeric ==
    << <<"Price">>, <<"Price_Chg %">>, <<"Free Float">>, TOTAL_LOCAL,
       TOTAL_FOREIGN, TOP_BUYER_VOL, TOP_SELLER_VOL, SEC_NUM >>
    \o OWNERSHIP_COLS \o OWNERSHIP_CHG_COLS

FullHeader == {DATE, CODE, SECTOR, TOP_BUYER, TOP_SELLER} \cup Range(cols_to_numeric)

-----------------------------------------------------------------------------
(* Conversions of load_data *)

Digits == {"0", "1", "2", "3", "4", "5", "6", "7", "8", "9"}

DigitVal(c) ==
    CASE c = "0" -> 0 [] c = "1" -> 1 [] c = "2" -> 2 [] c = "3" -> 3
      [] c = "4" -> 4 [] c = "5" -> 5 [] c = "6" -> 6 [] c = "7" -> 7
      [] c = "8" -> 8 [] c = "9" -> 9

IsDigits(s) == s # <<>> /\ \A i \in DOMAIN s : s[i] \in Digits

RECURSIVE ParseNat(_)
ParseNat(s) ==
    IF s = <<>> THEN 0
    ELSE 10 * ParseNat(SubSeq(s, 1, Len(s) - 1)) + DigitVal(s[Len(s)])

\* pd.to_numeric(..., errors='coerce') on one cell: whether the text denotes a
\* number (a missing value and any other text are coerced to NaN) ...
to_numeric_ok(s) ==
    /\ ~IsNa(s)
    /\ \/ IsDigits(s)
       \/ s # <<>> /\ Head(s) = "-" /\ IsDigits(Tail(s))

\* ... and the number it denotes
to_numeric(s) == IF Head(s) = "-" THEN 0 - ParseNat(Tail(s)) ELSE ParseNat(s)

\* Series.astype(str) on one cell of an object column.  pandas 2 writes a
\* missing value as the text 'nan'; pandas 3 (string dtype) keeps it missing.
\* Which one runs is a property of the installed build.
astype_str(v, b, nanText) ==
    IF IsNa(v) THEN (IF b = "nan_text" THEN nanText ELSE NaN) ELSE v

\* .str.strip() / .str.replace(',', '') keep a missing value missing
str_strip(v) == IF IsNa(v) THEN NaN ELSE Strip(v)
str_replace_comma(v) == IF IsNa(v) THEN NaN ELSE Remove(v, ",")

fillna(v, d) == IF IsNa(v) THEN d ELSE v

\* lines 97-102 on one cell: pd.to_numeric(cleaned_col, errors='coerce').fillna(0)
CleanNumeric(v, b) ==
    LET cleaned_col == str_replace_comma(str_strip(astype_str(v, b, <<"n", "a", "n">>)))
    IN  IF to_numeric_ok(cleaned_col) THEN to_numeric(cleaned_col) ELSE 0

\* mutant of CleanSector: a missing label stays missing
CleanSector_KeepsMissing(v, b) == str_strip(v)

\* line 86 on one cell
CleanSector(v, b) == fillna(str_strip(astype_str(v, b, <<"nan">>)), <<"Others">>)

IsLeap(y) == (y % 4 = 0 /\ y % 100 # 0) \/ y % 400 = 0

DaysInMonth(y, m) ==
    IF m = 2 THEN (IF IsLeap(y) THEN 29 ELSE 28)
    ELSE IF m \in {4, 6, 9, 11} THEN 30 ELSE 31

\* pd.to_datetime(..., errors='coerce') on one cell, for the ISO form
\* YYYY-MM-DD; any other text, an impossible date and a missing cell give NaT.
\* A date is <<year, month, day>>.
to_datetime(s) ==
    IF IsNa(s) \/ Len(s) # 10 THEN NaT
    ELSE IF ~(s[5] = "-" /\ s[8] = "-" /\ IsDigits(SubSeq(s, 1, 4))
              /\ IsDigits(SubSeq(s, 6, 7)) /\ IsDigits(SubSeq(s, 9, 10))) THEN NaT
    ELSE LET y == ParseNat(SubSeq(s, 1, 4))
             m == ParseNat(SubSeq(s, 6, 7))
             d == ParseNat(SubSeq(s, 9, 10))
         IN  IF m \in 1..12 /\ d \in 1..DaysInMonth(y, m) /\ y >= 1 THEN <<y, m, d>> ELSE NaT

Year(d) == d[1]
\* the month bucket of resample('MS'), as a month count
MonthIndex(d) == d[1] * 12 + (d[2] - 1)
\* total order of dates
DateOrd(d) == (MonthIndex(d) * 31) + (d[3] - 1)

-----------------------------------------------------------------------------
(* The snapshot files the model reads: tables of at most MaxRows rows, each *)
(* row one of a few rows that differ in the cells the cleaning treats       *)
(* differently (padding, thousands separators, unparsable text, missing     *)
(* cells), under a few headers.                                             *)

D_2024_01_15 == <<"2", "0", "2", "4", "-", "0", "1", "-", "1", "5">>
D_2024_03_01 == <<"2", "0", "2", "4", "-", "0", "3", "-", "0", "1">>
D_2023_12_31 == <<"2", "0", "2", "3", "-", "1", "2", "-", "3", "1">>
D_2024_13_01 == <<"2", "0", "2", "4", "-", "1", "3", "-", "0", "1">>

DefaultCell(c) ==
    IF c = DATE THEN D_2024_01_15
    ELSE IF c = CODE THEN <<"AAA">>
    ELSE IF c = SECTOR THEN <<"Finance">>
    ELSE IF c = TOP_BUYER THEN <<"Local", "MF">>
    ELSE IF c = TOP_SELLER THEN <<"Foreign", "IS">>
    ELSE <<"0">>

RawRow(over) == [c \in FullHeader |-> IF c \in DOMAIN over THEN over[c] ELSE DefaultCell(c)]

RowVariants ==
    << RawRow(   (Chg(<<"Local", "MF">>) :> <<"1", "0", "0">>)
              @@ (Chg(<<"Foreign", "IS">>) :> <<"-", "5">>)
              @@ (<<"Local", "IS">> :> <<"1">>)
              @@ (<<"Local", "CP">> :> <<"1", "0", ",", "0", "0", "0">>)
              @@ (TOP_BUYER_VOL :> <<"1", ",", "0", "0", "0">>)
              @@ (TOP_SELLER_VOL :> <<"-", "5">>) ),
       RawRow(   (SECTOR :> <<" ", "Mining", " ">>)
              @@ (Chg(<<"Local", "MF">>) :> <<"-", "5", "0">>)
              @@ (Chg(<<"Foreign", "MF">>) :> <<" ", "1", ",", "0", "0", "0", " ">>)
              @@ (<<"Local", "IS">> :> <<"5">>)
              @@ (<<"Foreign", "IS">> :> <<"5">>)
              @@ (<<"Price">> :> <<"x">>)
              @@ (TOP_BUYER :> <<"Foreign", "MF">>)
              @@ (TOP_SELLER :> <<"Local", "MF">>)
              @@ (TOP_SELLER_VOL :> <<"-", "5", "0">>) ),
       RawRow(   (DATE :> D_2024_03_01)
              @@ (Chg(<<"Local", "IS">>) :> <<"x">>)
              @@ (Chg(<<"Foreign", "OT">>) :> <<"7">>)
              @@ (SEC_NUM :> NaN) ),
       RawRow(   (DATE :> D_2023_12_31)
              @@ (CODE :> <<"BBB">>)
              @@ (SECTOR :> NaN)
              @@ (Chg(<<"Local", "MF">>) :> NaN)
              @@ (Chg(<<"Foreign", "CP">>) :> <<"3">>)
              @@ (<<"Local", "IS">> :> <<"3">>)
              @@ (<<"Foreign", "IS">> :> <<"2">>)
              @@ (TOP_BUYER :> NaN) ),
       RawRow(   (DATE :> D_2024_13_01)
              @@ (Chg(<<"Local", "MF">>) :> <<"9">>) ),
       RawRow(   (DATE :> D_2024_03_01)
              @@ (CODE :> NaN)
              @@ (Chg(<<"Local", "IS">>) :> <<"x">>) ),
       RawRow(   (DATE :> NaN)
              @@ (CODE :> <<"BBB">>)
              @@ (Chg(<<"Foreign", "CP">>) :> <<"1", " ", "0">>) ) >>

\* the header lines: complete, with a padded name, or lacking a column
Headers ==
    { FullHeader,
      (FullHeader \ {DATE}) \cup {<<" ", "Date", " ">>},
      FullHeader \ {SECTOR},
      FullHeader \ {SEC_NUM},
      FullHeader \ {Chg(<<"Local", "IS">>)},
      FullHeader \ {Chg(<<"Foreign", "OT">>)},
      FullHeader \ {DATE},
      FullHeader \ {CODE} }

RawTable(h, ids) ==
    [ cols |-> h,
      rows |-> [i \in DOMAIN ids |-> [c \in h |-> RowVariants[ids[i]][Strip(c)]]] ]

RawTables ==
    { RawTable(h, ids) :
        h \in Headers,
        ids \in UNION {[1..n -> DOMAIN RowVariants] : n \in 0..MaxRows} }

\* files of one row more, all of them rows that survive the cleaning, under
\* the full header: room for a sector with a month without rows between two
\* months with rows, next to a second sector
KeptVariants ==
    {v \in DOMAIN RowVariants :
        to_datetime(RowVariants[v][DATE]) # NaT /\ ~IsNa(RowVariants[v][CODE])}
GapTables == {RawTable(FullHeader, ids) : ids \in [1..(MaxRows + 1) -> KeptVariants]}

Builds == {"nan_text", "keeps_na"}

\* pd.DataFrame()
EmptyDF == [cols |-> {}, rows |-> <<>>]
\* DataFrame.empty
IsEmpty(d) == d.cols = {} \/ d.rows = <<>>

NoReturn == [df |-> EmptyDF, status |-> "running"]
NoCall == [fn |-> "none"]

Init ==
    /\ raw \in RawTables
    /\ build \in Builds
    /\ pc = "auth"
    /\ df = EmptyDF
    /\ fileId = ""
    /\ ret = NoReturn
    /\ diag = FALSE
    /\ shown = <<>>
    /\ picked = {}
    /\ selected_years = {}
    /\ sel = EmptyDF
    /\ out = NoCall

\* the same program started on one of the longer files
InitGap ==
    /\ raw \in GapTables
    /\ build \in Builds
    /\ pc = "auth"
    /\ df = EmptyDF
    /\ fileId = ""
    /\ ret = NoReturn
    /\ diag = FALSE
    /\ shown = <<>>
    /\ picked = {}
    /\ selected_years = {}
    /\ sel = EmptyDF
    /\ out = NoCall

-----------------------------------------------------------------------------
(* DataFrame helpers *)

\* df[c] = vals: add or replace one column, vals[i] the value of row i
SetCol(d, c, vals) ==
    [ cols |-> d.cols \cup {c},
      rows |-> [i \in DOMAIN d.rows |->
                  [k \in d.cols \cup {c} |-> IF k = c THEN vals[i] ELSE d.rows[i][k]]] ]

\* the rows whose mask is TRUE, in order
RECURSIVE MaskSelect(_, _)
MaskSelect(rows, mask) ==
    IF rows = <<>> THEN <<>>
    ELSE (IF Head(mask) THEN <<Head(rows)>> ELSE <<>>) \o MaskSelect(Tail(rows), Tail(mask))

\* df[mask], mask a boolean per row
Filter(d, mask) == [cols |-> d.cols, rows |-> MaskSelect(d.rows, mask)]

\* df[cols].sum(axis=1) on one row
RowSum(row, cs) == SeqSum([i \in DOMAIN cs |-> row[cs[i]]])

\* df[c].sum() over the rows
ColSum(rows, c) == SeqSum([i \in DOMAIN rows |-> rows[i][c]])

-----------------------------------------------------------------------------
(* load_data, lines 54-121 *)

Return(d, status) ==
    /\ ret' = [df |-> d, status |-> status]
    /\ pc' = "returned"

\* mutant of ReturnError: the handler hands back the table built so far
ReturnError_PartialTable == Return(df, "error")

\* lines 58, 69 and the handler of lines 119-121
ReturnError == Return(EmptyDF, "error")

\* lines 56-58, get_gdrive_service failed (lines 46-51)
AuthFail ==
    /\ pc = "auth"
    /\ ReturnError
    /\ UNCHANGED <<raw, build, df, fileId, diag, shown, picked, selected_years, sel, out>>

\* lines 56-57, get_gdrive_service returned a service (lines 42-45)
AuthOk ==
    /\ pc = "auth"
    /\ pc' = "list"
    /\ UNCHANGED <<raw, build, df, fileId, ret, diag, shown, picked, selected_years, sel, out>>

\* lines 61-64, the listing request raises
ListRaises ==
    /\ pc = "list"
    /\ ReturnError
    /\ UNCHANGED <<raw, build, df, fileId, diag, shown, picked, selected_years, sel, out>>

\* lines 65-69, no file of that name
ListEmpty ==
    /\ pc = "list"
    /\ ReturnError
    /\ UNCHANGED <<raw, build, df, fileId, diag, shown, picked, selected_years, sel, out>>

\* lines 65-71
ListFound ==
    /\ pc = "list"
    /\ fileId' = "id"
    /\ pc' = "download"
    /\ UNCHANGED <<raw, build, df, ret, diag, shown, picked, selected_years, sel, out>>

\* lines 72-78, a chunk request raises
DownloadRaises ==
    /\ pc = "download"
    /\ ReturnError
    /\ UNCHANGED <<raw, build, df, fileId, diag, shown, picked, selected_years, sel, out>>

DownloadOk ==
    /\ pc = "download"
    /\ pc' = "read_csv"
    /\ UNCHANGED <<raw, build, df, fileId, ret, diag, shown, picked, selected_years, sel, out>>

\* line 80, the bytes are no table
ReadCsvRaises ==
    /\ pc = "read_csv"
    /\ ReturnError
    /\ UNCHANGED <<raw, build, df, fileId, diag, shown, picked, selected_years, sel, out>>

\* line 80
ReadCsvOk ==
    /\ pc = "read_csv"
    /\ df' = raw
    /\ pc' = "clean_date"
    /\ UNCHANGED <<raw, build, fileId, ret, diag, shown, picked, selected_years, sel, out>>

\* line 82: df.columns = df.columns.str.strip()
StripColumns(d) ==
    LET cs == {Strip(c) : c \in d.cols}
        Src(k) == CHOOSE c \in d.cols : Strip(c) = k
    IN  [ cols |-> cs,
          rows |-> [i \in DOMAIN d.rows |-> [k \in cs |-> d.rows[i][Src(k)]]] ]

\* lines 82-83; df['Date'] raises KeyError without the column
CleanDate ==
    /\ pc = "clean_date"
    /\ LET stripped == StripColumns(df)
       IN  IF DATE \in stripped.cols
           THEN /\ df' = SetCol(stripped, DATE,
                                [i \in DOMAIN stripped.rows |->
                                    to_datetime(stripped.rows[i][DATE])])
                /\ pc' = "clean_sector"
                /\ UNCHANGED ret
           ELSE /\ df' = stripped
                /\ ReturnError
    /\ UNCHANGED <<raw, build, fileId, diag, shown, picked, selected_years, sel, out>>

\* lines 85-88
SectorColumn(d, b) ==
    IF SECTOR \in d.cols
    THEN SetCol(d, SECTOR, [i \in DOMAIN d.rows |-> CleanSector(d.rows[i][SECTOR], b)])
    ELSE SetCol(d, SECTOR, [i \in DOMAIN d.rows |-> <<"Others">>])

CleanSectorStep ==
    /\ pc = "clean_sector"
    /\ df' = SectorColumn(df, build)
    /\ pc' = "clean_numeric"
    /\ UNCHANGED <<raw, build, fileId, ret, diag, shown, picked, selected_years, sel, out>>

\* lines 95-105, the whole loop
NumericColumns(d, b) ==
    LET cs == d.cols \cup {SEC_NUM}
    IN  [ cols |-> cs,
          rows |-> [i \in DOMAIN d.rows |->
                      [k \in cs |->
                          IF k \in Range(cols_to_numeric)
                          THEN (IF k \in d.cols THEN CleanNumeric(d.rows[i][k], b) ELSE 0)
                          ELSE d.rows[i][k]]] ]

CleanNumericStep ==
    /\ pc = "clean_numeric"
    /\ df' = NumericColumns(df, build)
    /\ diag' = (SEC_NUM \notin df.cols)
    /\ pc' = "dropna"
    /\ UNCHANGED <<raw, build, fileId, ret, shown, picked, selected_years, sel, out>>

\* mutant of Valid: dropna with one more column in subset
Valid_AlsoTopBuyer(row) == row[DATE] # NaT /\ ~IsNa(row[CODE]) /\ ~IsNa(row[TOP_BUYER])

\* line 107: df.dropna(subset=['Date', 'Code'])
Valid(row) == row[DATE] # NaT /\ ~IsNa(row[CODE])

DropNa ==
    /\ pc = "dropna"
    /\ IF CODE \in df.cols
       THEN /\ df' = Filter(df, [i \in DOMAIN df.rows |-> Valid(df.rows[i])])
            /\ pc' = "sums"
            /\ UNCHANGED ret
       ELSE /\ ReturnError
            /\ UNCHANGED df
    /\ UNCHANGED <<raw, build, fileId, diag, shown, picked, selected_years, sel, out>>

\* mutant of local_chg_cols: the test also matches the type code 'IS'
local_chg_cols_MatchesIS ==
    SelectSeq(OWNERSHIP_CHG_COLS, LAMBDA col : Contains(col, "Local") \/ Contains(col, "IS"))

\* lines 109-110
local_chg_cols == SelectSeq(OWNERSHIP_CHG_COLS, LAMBDA col : Contains(col, "Local"))
foreign_chg_cols == SelectSeq(OWNERSHIP_CHG_COLS, LAMBDA col : Contains(col, "Foreign"))

\* lines 112-114 on a table that has the 18 change columns
DerivedSums(d) ==
    LET d1 == SetCol(d, TOTAL_LOCAL_CHG,
                     [i \in DOMAIN d.rows |-> RowSum(d.rows[i], local_chg_cols)])
        d2 == SetCol(d1, TOTAL_FOREIGN_CHG,
                     [i \in DOMAIN d.rows |-> RowSum(d.rows[i], foreign_chg_cols)])
    IN  SetCol(d2, TOTAL_CHG,
               [i \in DOMAIN d.rows |->
                   d2.rows[i][TOTAL_LOCAL_CHG] + d2.rows[i][TOTAL_FOREIGN_CHG]])

\* lines 112-114; df[local_chg_cols] raises KeyError when a column is absent
Sums ==
    /\ pc = "sums"
    /\ IF Range(OWNERSHIP_CHG_COLS) \subseteq df.cols
       THEN /\ df' = DerivedSums(df)
            /\ pc' = "return"
            /\ UNCHANGED ret
       ELSE /\ ReturnError
            /\ UNCHANGED df
    /\ UNCHANGED <<raw, build, fileId, diag, shown, picked, selected_years, sel, out>>

\* lines 116-117
ReturnSuccess ==
    /\ pc = "return"
    /\ Return(df, "success")
    /\ UNCHANGED <<raw, build, df, fileId, diag, shown, picked, selected_years, sel, out>>

load_data ==
    \/ AuthFail \/ AuthOk \/ ListRaises \/ ListEmpty \/ ListFound
    \/ DownloadRaises \/ DownloadOk \/ ReadCsvRaises \/ ReadCsvOk
    \/ CleanDate \/ CleanSectorStep \/ CleanNumericStep \/ DropNa \/ Sums
    \/ ReturnSuccess

-----------------------------------------------------------------------------
(* The script after load_data, lines 255-289 *)

\* lines 257-260: the status of the load is reported
ShowStatus ==
    /\ pc = "returned"
    /\ shown' = IF ret.status = "success" THEN Append(shown, "toast")
                ELSE IF ret.status = "error" THEN Append(shown, "error")
                ELSE shown
    /\ pc' = "sidebar"
    /\ UNCHANGED <<raw, build, df, fileId, ret, diag, picked, selected_years, sel, out>>

\* lines 267-269: the refresh button clears the cache and reruns the script
Refresh ==
    /\ pc = "sidebar"
    /\ pc' = "auth"
    /\ df' = EmptyDF
    /\ fileId' = ""
    /\ ret' = NoReturn
    /\ diag' = FALSE
    /\ shown' = <<>>
    /\ UNCHANGED <<raw, build, picked, selected_years, sel, out>>

\* lines 271-273
Stop ==
    /\ pc = "sidebar"
    /\ IsEmpty(ret.df)
    /\ shown' = Append(shown, "warning")
    /\ pc' = "stopped"
    /\ UNCHANGED <<raw, build, df, fileId, ret, diag, picked, selected_years, sel, out>>

all_years(d) == {Year(d.rows[i][DATE]) : i \in DOMAIN d.rows}
max_year(d) == CHOOSE y \in all_years(d) : \A z \in all_years(d) : z <= y

\* mutant of EffectiveYears: no fallback for an empty selection
EffectiveYears_NoFallback(d, years) == years

\* lines 285-287: an empty selection is replaced by the latest year
EffectiveYears(d, years) == IF years = {} THEN {max_year(d)} ELSE years

\* lines 285-289
FilterByYear(d, years) ==
    Filter(d, [i \in DOMAIN d.rows |-> Year(d.rows[i][DATE]) \in EffectiveYears(d, years)])

\* lines 276-289, for any selection the multiselect offers
YearFilter ==
    /\ pc = "sidebar"
    /\ ~IsEmpty(ret.df)
    /\ \E years \in SUBSET all_years(ret.df) :
          /\ picked' = years
          /\ selected_years' = EffectiveYears(ret.df, years)
          /\ sel' = FilterByYear(ret.df, years)
    /\ pc' = "ready"
    /\ UNCHANGED <<raw, build, df, fileId, ret, diag, shown, out>>

-----------------------------------------------------------------------------
(* Sorting.  sort_values is called without kind=, so it sorts with          *)
(* 'quicksort', which is not stable: rows with equal keys come out in an    *)
(* order the build chooses.  The model lets a sort return the stable order  *)
(* or the order with every run of equal keys reversed.                      *)

SortModes == {"stable", "ties_reversed"}

RECURSIVE ArgSortUpTo(_, _, _)
ArgSortUpTo(keys, n, mode) ==
    IF n = 0 THEN <<>>
    ELSE LET s == ArgSortUpTo(keys, n - 1, mode)
             pos == IF mode = "stable"
                    THEN Cardinality({i \in DOMAIN s : keys[s[i]] <= keys[n]})
                    ELSE Cardinality({i \in DOMAIN s : keys[s[i]] < keys[n]})
         IN  SubSeq(s, 1, pos) \o <<n>> \o SubSeq(s, pos + 1, Len(s))

\* the indices of keys in ascending key order
argsort(keys, mode) == ArgSortUpTo(keys, Len(keys), mode)

\* sort_values on a sequence of items with the given integer keys
sort_values(items, keys, ascending, mode) ==
    LET ks == IF ascending THEN keys ELSE [i \in DOMAIN keys |-> 0 - keys[i]]
        idx == argsort(ks, mode)
    IN  [i \in DOMAIN idx |-> items[idx[i]]]

\* the text order of the labels that occur (groupby sorts its keys)
LabelRank(s) ==
    CASE s = <<>> -> 0
      [] s = <<"AAA">> -> 1
      [] s = <<"BBB">> -> 2
      [] s = <<"Finance">> -> 3
      [] s = <<"Mining">> -> 4
      [] s = <<"Others">> -> 5
      [] s = <<"nan">> -> 6

\* a finite set of values as the sequence ordered by Key, which is one-to-one
RECURSIVE SortedSeq(_, _)
SortedSeq(S, key) ==
    IF S = {} THEN <<>>
    ELSE LET m == CHOOSE x \in S : \A y \in S : key[x] <= key[y]
         IN  <<m>> \o SortedSeq(S \ {m}, key)

\* Series.nunique(): missing values are not counted
nunique(d, c) == Cardinality({d.rows[i][c] : i \in DOMAIN d.rows} \ {NaN})

\* the keys of groupby('Sector'): sorted, missing values left out
SectorKeys(d) ==
    LET S == {d.rows[i][SECTOR] : i \in DOMAIN d.rows} \ {NaN}
    IN  SortedSeq(S, [x \in S |-> LabelRank(x)])

-----------------------------------------------------------------------------
(* calculate_macro_flow, lines 128-139 *)

\* mutant of NetFlowUnsorted: the last change column is left out of the sum
NetFlowUnsorted_DropsLast(d) ==
    [i \in DOMAIN OWNERSHIP_CHG_COLS |->
        [ Kategori |-> Remove(OWNERSHIP_CHG_COLS[i], "_chg"),
          Flow |-> IF i = Len(OWNERSHIP_CHG_COLS) THEN 0
                   ELSE ColSum(d.rows, OWNERSHIP_CHG_COLS[i]) ]]

\* lines 130-132, before the sort
NetFlowUnsorted(d) ==
    [i \in DOMAIN OWNERSHIP_CHG_COLS |->
        [ Kategori |-> Remove(OWNERSHIP_CHG_COLS[i], "_chg"),
          Flow |-> ColSum(d.rows, OWNERSHIP_CHG_COLS[i]) ]]

\* mutant of NetFlow: ascending=False is forgotten
NetFlow_Ascending(d, mode) ==
    LET nf == NetFlowUnsorted(d)
    IN  sort_values(nf, [i \in DOMAIN nf |-> nf[i].Flow], TRUE, mode)

\* lines 130-133
NetFlow(d, mode) ==
    LET nf == NetFlowUnsorted(d)
    IN  sort_values(nf, [i \in DOMAIN nf |-> nf[i].Flow], FALSE, mode)

\* the keys of groupby('Date'): sorted, missing values left out
DateKeys(d) ==
    LET S == {d.rows[i][DATE] : i \in DOMAIN d.rows} \ {NaT}
    IN  SortedSeq(S, [x \in S |-> DateOrd(x)])

\* line 135: groupby('Date')[c].sum(), one sum per key
DateSums(d, c) ==
    LET ks == DateKeys(d)
    IN  [i \in DOMAIN ks |->
            LET P(row) == row[DATE] = ks[i] IN ColSum(SelectSeq(d.rows, P), c)]

\* mutant of cumsum: the running total is forgotten
cumsum_Missing(s) == s

\* line 135: .cumsum(), the running total down the column
cumsum(s) == [i \in DOMAIN s |-> SeqSum(SubSeq(s, 1, i))]

\* lines 135-137: one line per date for each of the two columns, the first
\* column's lines first (melt)
CumFlow(d) ==
    LET ks == DateKeys(d)
        Lines(c, name) ==
            LET cum == cumsum(DateSums(d, c))
            IN  [i \in DOMAIN ks |->
                    [Date |-> ks[i], Kategori |-> name, Cum |-> cum[i]]]
    IN  Lines(TOTAL_LOCAL_CHG, <<"Total", "_", "Local", " (Net)">>)
        \o Lines(TOTAL_FOREIGN_CHG, <<"Total", "_", "Foreign", " (Net)">>)

calculate_macro_flow(d, mode) ==
    [fn |-> "calculate_macro_flow", net_flow |-> NetFlow(d, mode), cum_flow |-> CumFlow(d)]

CallMacroFlow ==
    /\ pc = "ready"
    /\ \E mode \in SortModes : out' = calculate_macro_flow(sel, mode)
    /\ pc' = "called"
    /\ UNCHANGED <<raw, build, df, fileId, ret, diag, shown, picked, selected_years, sel>>

-----------------------------------------------------------------------------
(* calculate_sector_rotation, lines 142-152 *)

None == "None"

\* mutant of SectorUnavailable: < instead of <=
SectorUnavailable_OffByOne(d) == SECTOR \notin d.cols \/ nunique(d, SECTOR) < 1

\* the test of lines 144 and 157
SectorUnavailable(d) == SECTOR \notin d.cols \/ nunique(d, SECTOR) <= 1

\* lines 149-150: groupby('Sector')[col].sum()
SectorSums(d, col) ==
    LET ks == SectorKeys(d)
    IN  [i \in DOMAIN ks |->
            [ Sector |-> ks[i],
              Flow |-> LET P(row) == row[SECTOR] = ks[i]
                       IN  ColSum(SelectSeq(d.rows, P), col) ]]

calculate_sector_rotation(d, selected_category, mode) ==
    LET category_chg_col == Chg(selected_category)
        base == [fn |-> "calculate_sector_rotation", category |-> selected_category]
    IN  IF SectorUnavailable(d)
        THEN base @@ [table |-> <<>>, msg |-> "Data sektor tidak tersedia atau hanya 'Others'."]
        ELSE IF category_chg_col \notin d.cols
        THEN base @@ [table |-> <<>>, msg |-> "Kolom tidak ditemukan."]
        ELSE LET t == SectorSums(d, category_chg_col)
             IN  base @@ [ table |-> sort_values(t, [i \in DOMAIN t |-> t[i].Flow], FALSE, mode),
                           msg |-> None ]

\* the categories the model passes: the 18, and names outside the enumeration
CategoryArgs == Range(OWNERSHIP_COLS) \cup {<<"Total">>, TOTAL_LOCAL, <<"Local", "XX">>}

CallSectorRotation ==
    /\ pc = "ready"
    /\ \E selected_category \in CategoryArgs, mode \in SortModes :
          out' = calculate_sector_rotation(sel, selected_category, mode)
    /\ pc' = "called"
    /\ UNCHANGED <<raw, build, df, fileId, ret, diag, shown, picked, selected_years, sel>>

-----------------------------------------------------------------------------
(* calculate_monthly_sector_flow, lines 155-162 *)

RECURSIVE Flatten(_)
Flatten(ss) == IF ss = <<>> THEN <<>> ELSE Head(ss) \o Flatten(Tail(ss))

\* the month start date of a month count
MonthStart(mi) == <<mi \div 12, (mi % 12) + 1, 1>>

\* mutant of MonthBins: the group's last month is left out
MonthBins_DropsLast(rows) ==
    LET ms == {MonthIndex(rows[i][DATE]) : i \in DOMAIN rows}
        lo == CHOOSE m \in ms : \A n \in ms : m <= n
        hi == CHOOSE m \in ms : \A n \in ms : n <= m
    IN  [j \in 1..(hi - lo) |-> lo + j - 1]

\* resample('MS') within one group: a bin for every month from the group's
\* first to its last, also for a month without rows (its sum is 0)
MonthBins(rows) ==
    LET ms == {MonthIndex(rows[i][DATE]) : i \in DOMAIN rows}
        lo == CHOOSE m \in ms : \A n \in ms : m <= n
        hi == CHOOSE m \in ms : \A n \in ms : n <= m
    IN  [j \in 1..(hi - lo + 1) |-> lo + j - 1]

\* line 160
MonthlySectorSums(d) ==
    LET ks == SectorKeys(d)
        Group(k) == LET P(row) == row[SECTOR] = k IN SelectSeq(d.rows, P)
        Lines(k) ==
            LET bins == MonthBins(Group(k))
            IN  [j \in DOMAIN bins |->
                    [ Sector |-> k,
                      Month |-> MonthStart(bins[j]),
                      Flow |-> LET P(row) == MonthIndex(row[DATE]) = bins[j]
                               IN  ColSum(SelectSeq(Group(k), P), TOTAL_CHG) ]]
    IN  Flatten([i \in DOMAIN ks |-> Lines(ks[i])])

calculate_monthly_sector_flow(d) ==
    IF SectorUnavailable(d)
    THEN [fn |-> "calculate_monthly_sector_flow", table |-> <<>>,
          msg |-> "Data sektor tidak tersedia."]
    ELSE [fn |-> "calculate_monthly_sector_flow", table |-> MonthlySectorSums(d),
          msg |-> None]

CallMonthlySectorFlow ==
    /\ pc = "ready"
    /\ out' = calculate_monthly_sector_flow(sel)
    /\ pc' = "called"
    /\ UNCHANGED <<raw, build, df, fileId, ret, diag, shown, picked, selected_years, sel>>

-----------------------------------------------------------------------------
(* Percentages are exact fractions [num, den] with den > 0 *)

RECURSIVE GCD(_, _)
GCD(a, b) == IF b = 0 THEN a ELSE GCD(b, a % b)

RatZero == [num |-> 0, den |-> 1]

RatAdd(a, b) ==
    LET l == (a.den \div GCD(a.den, b.den)) * b.den
    IN  [num |-> a.num * (l \div a.den) + b.num * (l \div b.den), den |-> l]

RECURSIVE RatSum(_)
RatSum(s) == IF s = <<>> THEN RatZero ELSE RatAdd(Head(s), RatSum(Tail(s)))

\* a = n, for an integer n
RatIs(a, n) == a.num = n * a.den

\* a > 0.01
AboveTolerance(a) == a.num > a.den \div 100

\* (share / total) * 100 where total > 0, else 0 (lines 176-179 and 210)
Pct(share, total) == IF total > 0 THEN [num |-> share * 100, den |-> total] ELSE RatZero

-----------------------------------------------------------------------------
(* get_stock_ownership_state, lines 165-181 *)

StockRows(d, stock_code) ==
    LET P(row) == row[CODE] = stock_code IN SelectSeq(d.rows, P)

\* df_stock.sort_values('Date')
SortByDate(rows, mode) ==
    sort_values(rows, [i \in DOMAIN rows |-> DateOrd(rows[i][DATE])], TRUE, mode)

\* mutant of LatestRow: iloc[0] instead of iloc[-1]
LatestRow_First(rows, mode) == SortByDate(rows, mode)[1]

\* line 171
LatestRow(rows, mode) == LET s == SortByDate(rows, mode) IN s[Len(s)]

\* lines 172-179
StateTable(latest_row) ==
    LET total_shares_pie1 == RowSum(latest_row, OWNERSHIP_COLS)
    IN  [i \in DOMAIN OWNERSHIP_COLS |->
            [ Kategori |-> OWNERSHIP_COLS[i],
              Jumlah |-> latest_row[OWNERSHIP_COLS[i]],
              Persentase |-> Pct(latest_row[OWNERSHIP_COLS[i]], total_shares_pie1) ]]

get_stock_ownership_state(d, stock_code, mode1, mode2) ==
    LET df_stock == StockRows(d, stock_code)
        base == [fn |-> "get_stock_ownership_state", code |-> stock_code]
    IN  IF df_stock = <<>>
        THEN base @@ [empty |-> TRUE, df_state |-> <<>>]
        ELSE LET latest_row == LatestRow(df_stock, mode1)
                 t == StateTable(latest_row)
             IN  base @@ [ empty |-> FALSE,
                           df_state |-> sort_values(t, [i \in DOMAIN t |-> t[i].Jumlah],
                                                    FALSE, mode2),
                           latest_row |-> latest_row ]

\* the codes the model asks for: the codes of the files and one of none
CodeArgs == {<<"AAA">>, <<"BBB">>, <<"ZZZ">>}

\* line 419: the state is taken from the whole dataset
CallOwnershipState ==
    /\ pc = "ready"
    /\ \E stock_code \in CodeArgs, mode1 \in SortModes, mode2 \in SortModes :
          out' = get_stock_ownership_state(ret.df, stock_code, mode1, mode2)
    /\ pc' = "called"
    /\ UNCHANGED <<raw, build, df, fileId, ret, diag, shown, picked, selected_years, sel>>

-----------------------------------------------------------------------------
(* calculate_historical_ownership_pct, lines 198-226 *)

\* lines 205-217: one line per category and row, the first category's lines
\* first (melt)
HistMelted(rows) ==
    Flatten([c \in DOMAIN OWNERSHIP_COLS |->
        [r \in DOMAIN rows |->
            [ Date |-> rows[r][DATE],
              Kategori |-> OWNERSHIP_COLS[c],
              Persentase |-> Pct(rows[r][OWNERSHIP_COLS[c]],
                                 RowSum(rows[r], OWNERSHIP_COLS)) ]]])

\* lines 221-222
active_categories(melted) ==
    { k \in Range(OWNERSHIP_COLS) :
        LET P(line) == line.Kategori = k
            ofK == SelectSeq(melted, P)
        IN  AboveTolerance(RatSum([i \in DOMAIN ofK |-> ofK[i].Persentase])) }

calculate_historical_ownership_pct(d) ==
    IF IsEmpty(d) \/ ~(Range(OWNERSHIP_COLS) \subseteq d.cols)
    THEN [fn |-> "calculate_historical_ownership_pct", input |-> d.rows, table |-> <<>>]
    ELSE LET melted == HistMelted(d.rows)
             act == active_categories(melted)
             P(line) == line.Kategori \in act
         IN  [fn |-> "calculate_historical_ownership_pct", input |-> d.rows,
              table |-> SelectSeq(melted, P)]

\* lines 418 and 474: the stock's rows of the year slice, sorted by date
CallHistoricalPct ==
    /\ pc = "ready"
    /\ \E stock_code \in CodeArgs, mode \in SortModes :
          out' = calculate_historical_ownership_pct(
                    [cols |-> sel.cols, rows |-> SortByDate(StockRows(sel, stock_code), mode)])
    /\ pc' = "called"
    /\ UNCHANGED <<raw, build, df, fileId, ret, diag, shown, picked, selected_years, sel>>

-----------------------------------------------------------------------------
(* The screener filter, lines 295-335 *)

\* line 295: the codes the multiselect offers
all_stocks(d) == {d.rows[i][CODE] : i \in DOMAIN d.rows}

\* Series.abs()
Abs(n) == IF n < 0 THEN -n ELSE n

\* lines 325-326
StockLeg(d, selected_stocks) ==
    IF selected_stocks # {}
    THEN Filter(d, [i \in DOMAIN d.rows |-> d.rows[i][CODE] \in selected_stocks])
    ELSE d

\* mutant of BuyerLeg: the leg filters the year's rows again instead of the
\* rows the earlier legs kept
BuyerLeg_FromYearRows(d, selected_buyers) ==
    IF selected_buyers # {}
    THEN Filter(sel, [i \in DOMAIN sel.rows |-> sel.rows[i][TOP_BUYER] \in selected_buyers])
    ELSE d

\* lines 327-328; isin is false on a missing Top_Buyer
BuyerLeg(d, selected_buyers) ==
    IF selected_buyers # {}
    THEN Filter(d, [i \in DOMAIN d.rows |-> d.rows[i][TOP_BUYER] \in selected_buyers])
    ELSE d

\* lines 329-330
SellerLeg(d, selected_sellers) ==
    IF selected_sellers # {}
    THEN Filter(d, [i \in DOMAIN d.rows |-> d.rows[i][TOP_SELLER] \in selected_sellers])
    ELSE d

\* lines 331-335
VolumeLeg(d, min_rotation_vol) ==
    IF min_rotation_vol > 0
    THEN Filter(d, [i \in DOMAIN d.rows |->
                      \/ d.rows[i][TOP_BUYER_VOL] >= min_rotation_vol
                      \/ Abs(d.rows[i][TOP_SELLER_VOL]) >= min_rotation_vol])
    ELSE d

\* lines 323-335
df_screener_filtered(d, selected_stocks, selected_buyers, selected_sellers, min_rotation_vol) ==
    VolumeLeg(SellerLeg(BuyerLeg(StockLeg(d, selected_stocks), selected_buyers),
                        selected_sellers),
              min_rotation_vol)

\* some of what the two category multiselects of lines 303-313 offer
BuyerArgs == {{}, {<<"Foreign", "MF">>}}
SellerArgs == {{}, {<<"Local", "MF">>}}
\* some of what the number input of lines 315-320 accepts (min_value=0)
VolArgs == {0, 50}

CallScreener ==
    /\ pc = "ready"
    /\ \E selected_stocks \in SUBSET all_stocks(sel), selected_buyers \in BuyerArgs,
          selected_sellers \in SellerArgs, min_rotation_vol \in VolArgs :
          out' = [fn |-> "df_screener_filtered",
                  selected_stocks |-> selected_stocks,
                  selected_buyers |-> selected_buyers,
                  selected_sellers |-> selected_sellers,
                  min_rotation_vol |-> min_rotation_vol,
                  table |-> df_screener_filtered(sel, selected_stocks, selected_buyers,
                                                 selected_sellers, min_rotation_vol)]
    /\ pc' = "called"
    /\ UNCHANGED <<raw, build, df, fileId, ret, diag, shown, picked, selected_years, sel>>

-----------------------------------------------------------------------------

Next ==
    \/ load_data
    \/ ShowStatus \/ Refresh \/ Stop \/ YearFilter
    \/ CallMacroFlow \/ CallSectorRotation \/ CallMonthlySectorFlow
    \/ CallOwnershipState \/ CallHistoricalPct
    \/ CallScreener

Spec == Init /\ [][Next]_vars

SpecGap == InitGap /\ [][Next]_vars

-----------------------------------------------------------------------------
(* What the claims speak about *)

Returned == ret.status # "running"
\* load_data has just returned the normalized dataset
Success == pc = "returned" /\ ret.status = "success"

InvestorTypes == {"IS", "CP", "PF", "IB", "ID", "MF", "SC", "FD", "OT"}
LocalChgFields == {<<"Local", t, "_chg">> : t \in InvestorTypes}
ForeignChgFields == {<<"Foreign", t, "_chg">> : t \in InvestorTypes}
Categories == {<<r, t>> : r \in {"Local", "Foreign"}, t \in InvestorTypes}

RECURSIVE FieldSum(_, _)
FieldSum(row, fields) ==
    IF fields = {} THEN 0
    ELSE LET f == CHOOSE f \in fields : TRUE
         IN  row[f] + FieldSum(row, fields \ {f})

\* the file's column of that (trimmed) name, and a cell of it
RawHas(c) == c \in raw.cols \/ \E k \in raw.cols : Strip(k) = c
RawCell(i, c) ==
    IF c \in raw.cols THEN raw.rows[i][c]
    ELSE raw.rows[i][CHOOSE k \in raw.cols : Strip(k) = c]

\* the file's record i has a Date that parses and a Code
RawValid(i) ==
    /\ RawHas(DATE) /\ RawHas(CODE)
    /\ to_datetime(RawCell(i, DATE)) # NaT
    /\ ~IsNa(RawCell(i, CODE))

RawValidIdx == SelectSeq([i \in DOMAIN raw.rows |-> i], RawValid)

\* a numeric cell whose text, trimmed and without separators, is no number
Unparsable(cell) == IsNa(cell) \/ ~to_numeric_ok(Remove(Strip(cell), ","))

-----------------------------------------------------------------------------
(* C1: in every record of the dataset load_data returns, Total_chg is       *)
(* Total_Local_chg + Total_Foreign_chg, Total_Local_chg is the sum of the 9 *)
(* 'Local *_chg' fields and Total_Foreign_chg the sum of the 9              *)
(* 'Foreign *_chg' fields.                                                  *)
C1_SumInvariant ==
    Success =>
        \A i \in DOMAIN ret.df.rows :
            LET r == ret.df.rows[i]
            IN  /\ r[TOTAL_CHG] = r[TOTAL_LOCAL_CHG] + r[TOTAL_FOREIGN_CHG]
                /\ r[TOTAL_LOCAL_CHG] = FieldSum(r, LocalChgFields)
                /\ r[TOTAL_FOREIGN_CHG] = FieldSum(r, ForeignChgFields)

\* a returned record with local and foreign changes that do not cancel
C1_Witness ==
    /\ Success
    /\ \E i \in DOMAIN ret.df.rows :
          /\ ret.df.rows[i][TOTAL_LOCAL_CHG] # 0
          /\ ret.df.rows[i][TOTAL_FOREIGN_CHG] # 0
          /\ ret.df.rows[i][TOTAL_CHG] # 0

(* C2, as claimed: whenever read_csv parsed a table that has Date and Code, *)
(* load_data succeeds and every record carries the 18 change entries, 0     *)
(* for a change column the file does not have.                              *)
C2_MissingChgDefaulted ==
    (Returned /\ df.cols # {} /\ RawHas(DATE) /\ RawHas(CODE)) =>
        /\ Success
        /\ \A i \in DOMAIN ret.df.rows :
              \A c \in LocalChgFields \cup ForeignChgFields :
                  /\ c \in DOMAIN ret.df.rows[i]
                  /\ (~RawHas(c) => ret.df.rows[i][c] = 0)

(* C3: the 18 totals of the net_flow table of calculate_macro_flow add up   *)
(* to the sum of Total_chg over the rows of the slice.                      *)
C3_NetFlowTotal ==
    out.fn = "calculate_macro_flow" =>
        /\ Len(out.net_flow) = Cardinality(Categories)
        /\ {out.net_flow[i].Kategori : i \in DOMAIN out.net_flow} = Categories
        /\ SeqSum([i \in DOMAIN out.net_flow |-> out.net_flow[i].Flow])
              = ColSum(sel.rows, TOTAL_CHG)

\* a slice of two records whose net flows are not all zero
C3_Witness ==
    /\ out.fn = "calculate_macro_flow"
    /\ Len(sel.rows) >= 2
    /\ ColSum(sel.rows, TOTAL_CHG) # 0
    /\ \E i \in DOMAIN out.net_flow : out.net_flow[i].Flow < 0

(* C4: load_data drops a record exactly when its Date does not parse or its *)
(* Code is missing: the returned records are the file's valid records, in   *)
(* order; and a numeric cell that does not parse is 0 in the record.        *)
C4_DropOnlyDateCode ==
    Success =>
        /\ Len(ret.df.rows) = Len(RawValidIdx)
        /\ \A j \in DOMAIN ret.df.rows :
              LET r == ret.df.rows[j]
                  i == RawValidIdx[j]
              IN  /\ r[DATE] = to_datetime(RawCell(i, DATE))
                  /\ r[CODE] = RawCell(i, CODE)
                  /\ \A c \in Range(cols_to_numeric) :
                        (RawHas(c) /\ Unparsable(RawCell(i, c))) => r[c] = 0

\* a file with a record that is dropped and a kept record with an unparsable
\* numeric cell
C4_Witness ==
    /\ Success
    /\ Len(ret.df.rows) < Len(raw.rows)
    /\ \E j \in DOMAIN ret.df.rows :
          \E c \in Range(cols_to_numeric) :
              /\ RawHas(c)
              /\ ~IsNa(RawCell(RawValidIdx[j], c))
              /\ Unparsable(RawCell(RawValidIdx[j], c))

(* C5: load_data hands its caller either the empty table with status        *)
(* 'error', or with status 'success' the complete normalized table: all     *)
(* valid records of the file, each with Sector, the 18 change entries and   *)
(* the three sums.  Nothing is handed over before it returns.               *)
C5_Atomic ==
    /\ ret.status \in {"running", "error", "success"}
    /\ ret.status \in {"running", "error"} => ret.df = EmptyDF
    /\ ret.status = "success" =>
          /\ {SECTOR, SEC_NUM, TOTAL_LOCAL_CHG, TOTAL_FOREIGN_CHG, TOTAL_CHG}
                \cup LocalChgFields \cup ForeignChgFields \subseteq ret.df.cols
          /\ Len(ret.df.rows) = Len(RawValidIdx)
          /\ \A i \in DOMAIN ret.df.rows :
                /\ DOMAIN ret.df.rows[i] = ret.df.cols
                /\ Valid(ret.df.rows[i])

\* load_data failed after it had cleaned part of the table
C5_Witness ==
    /\ pc = "returned"
    /\ ret.status = "error"
    /\ df.rows # <<>>
    /\ SECTOR \in df.cols
    /\ TOTAL_CHG \notin df.cols

-----------------------------------------------------------------------------
(* The sector aggregates *)

SectorCall == out.fn \in {"calculate_sector_rotation", "calculate_monthly_sector_flow"}

\* a sector call that is given one of the 18 categories, or needs none
SectorTableCall ==
    \/ out.fn = "calculate_monthly_sector_flow"
    \/ out.fn = "calculate_sector_rotation" /\ out.category \in Categories

SelSectors == {sel.rows[i][SECTOR] : i \in DOMAIN sel.rows}
BucketKeys == {out.table[j].Sector : j \in DOMAIN out.table}
TableTotal == SeqSum([j \in DOMAIN out.table |-> out.table[j].Flow])

\* the file's records behind the year slice
SelYears == {Year(sel.rows[i][DATE]) : i \in DOMAIN sel.rows}
SliceIdx ==
    {i \in Range(RawValidIdx) : Year(to_datetime(RawCell(i, DATE))) \in SelYears}

SourceMissing(i) == RawHas(SECTOR) /\ IsNa(RawCell(i, SECTOR))

\* the sector labels the file states for the slice
SourceLabels ==
    IF RawHas(SECTOR)
    THEN {Strip(RawCell(i, SECTOR)) : i \in {k \in SliceIdx : ~SourceMissing(k)}}
    ELSE {<<"Others">>}

\* the text a missing label has become: 'nan' under pandas 2, 'Others' under
\* pandas 3
MissingLabel == IF build = "nan_text" THEN <<"nan">> ELSE <<"Others">>

SliceLabel(i) ==
    IF ~RawHas(SECTOR) THEN <<"Others">>
    ELSE IF SourceMissing(i) THEN MissingLabel
    ELSE Strip(RawCell(i, SECTOR))

(* C6: on a slice with at most one distinct Sector value (every Sector      *)
(* 'Others', say), calculate_sector_rotation, for any category, and         *)
(* calculate_monthly_sector_flow return an empty table and a message.       *)
C6_SectorAbsence ==
    (SectorCall /\ Cardinality(SelSectors) <= 1) =>
        /\ out.table = <<>>
        /\ out.msg # None

\* sector rotation of one of the 18 categories on records that are all 'Others'
C6_Witness ==
    /\ out.fn = "calculate_sector_rotation"
    /\ out.category \in Categories
    /\ sel.rows # <<>>
    /\ SelSectors = {<<"Others">>}
    /\ out.msg # None

(* C7, as claimed: on a slice with two or more sectors,                     *)
(* calculate_sector_rotation gives a message and no table for every         *)
(* category outside the 18, and a table only for one of the 18.             *)
C7_UnknownCategory ==
    (out.fn = "calculate_sector_rotation" /\ Cardinality(SelSectors) >= 2) =>
        /\ out.category \notin Categories => (out.msg # None /\ out.table = <<>>)
        /\ out.msg = None => out.category \in Categories

(* C8, as claimed: a record whose Sector is missing in the file is left out *)
(* of the sector buckets: every bucket key is a label the file states, and  *)
(* only those labels count as distinct sector values.                       *)
C8_MissingSectorExcluded ==
    SectorTableCall =>
        /\ out.msg = None <=> Cardinality(SourceLabels) >= 2
        /\ out.msg = None => BucketKeys \subseteq SourceLabels

(* C8, amended: a record whose Sector is missing in the file is not left    *)
(* out.  Normalization labels it 'nan' (pandas 2) or 'Others' (pandas 3);   *)
(* that label is a bucket key and a distinct sector value like any other,   *)
(* so the buckets are exactly the labels of the slice's records and their   *)
(* values add up to the sum over all records of the slice.                  *)
C8_MissingSectorLabelled ==
    SectorTableCall =>
        LET labels == {SliceLabel(i) : i \in SliceIdx}
        IN  /\ out.msg = None <=> Cardinality(labels) >= 2
            /\ out.msg = None =>
                  /\ BucketKeys = labels
                  /\ TableTotal =
                        ColSum(sel.rows,
                               IF out.fn = "calculate_sector_rotation"
                               THEN Chg(out.category) ELSE TOTAL_CHG)

\* a sector table with the bucket of a record whose Sector is missing in the
\* file, which no stated label of the slice names
C8_Witness ==
    /\ SectorTableCall
    /\ out.msg = None
    /\ \E i \in SliceIdx : SourceMissing(i)
    /\ MissingLabel \in BucketKeys
    /\ MissingLabel \notin SourceLabels

-----------------------------------------------------------------------------
(* The latest ownership state *)

StateCall == out.fn = "get_stock_ownership_state"

\* the instrument's records, in the order of the dataset
InstrumentRows == StockRows(ret.df, out.code)

IsMaxDate(rows, i) ==
    \A j \in DOMAIN rows : DateOrd(rows[j][DATE]) <= DateOrd(rows[i][DATE])

(* C9, as claimed: Empty when no record has the code; otherwise the latest  *)
(* record is, of the instrument's records of maximal Date, the one that     *)
(* comes last in the input.                                                 *)
C9_LatestIsLastOfTies ==
    StateCall =>
        /\ out.empty <=> InstrumentRows = <<>>
        /\ ~out.empty =>
              LET rows == InstrumentRows
                  last == CHOOSE i \in DOMAIN rows :
                             /\ IsMaxDate(rows, i)
                             /\ \A j \in DOMAIN rows : IsMaxDate(rows, j) => j <= i
              IN  out.latest_row = rows[last]

(* C9, amended: Empty when no record has the code; otherwise the latest     *)
(* record is one of the instrument's records of maximal Date; which one,    *)
(* when several share that date, is not determined (the sort is not stable).*)
C9_LatestHasMaxDate ==
    StateCall =>
        /\ out.empty <=> InstrumentRows = <<>>
        /\ ~out.empty =>
              \E i \in DOMAIN InstrumentRows :
                  /\ InstrumentRows[i] = out.latest_row
                  /\ IsMaxDate(InstrumentRows, i)

\* two different records of the instrument share its maximal date, and the
\* one returned is the one that comes first in the input
C9_Witness ==
    /\ StateCall
    /\ ~out.empty
    /\ \E i, j \in DOMAIN InstrumentRows :
          /\ i < j
          /\ IsMaxDate(InstrumentRows, i)
          /\ IsMaxDate(InstrumentRows, j)
          /\ InstrumentRows[i] # InstrumentRows[j]
          /\ out.latest_row = InstrumentRows[i]

-----------------------------------------------------------------------------
(* The historical ownership percentages *)

HistCall == out.fn = "calculate_historical_ownership_pct"

(* C10, as claimed: for every date of the instrument's rows (one record per *)
(* date), the returned percentages of that date sum to 100 when the         *)
(* holdings of the 18 categories total nonzero, and are all 0 when the      *)
(* total is 0.                                                              *)
C10_PercentagesSumTo100 ==
    HistCall =>
        \A r \in DOMAIN out.input :
            LET d == out.input[r][DATE]
                total == RowSum(out.input[r], OWNERSHIP_COLS)
                P(line) == line.Date = d
                lines == SelectSeq(out.table, P)
                pcts == [i \in DOMAIN lines |-> lines[i].Persentase]
            IN  (\A q \in DOMAIN out.input : out.input[q][DATE] = d => q = r) =>
                    /\ total # 0 => RatIs(RatSum(pcts), 100)
                    /\ total = 0 => \A i \in DOMAIN pcts : pcts[i].num = 0

-----------------------------------------------------------------------------
(* The order of the net-flow table *)

MacroCall == out.fn = "calculate_macro_flow"

\* the place of a category in OWNERSHIP_COLS
CanonicalIndex(k) == CHOOSE i \in DOMAIN OWNERSHIP_COLS : OWNERSHIP_COLS[i] = k

Descending(t) == \A i, j \in DOMAIN t : i < j => t[i].Flow >= t[j].Flow

(* C11, as claimed: net_flow lists the 18 categories by summed delta,       *)
(* descending, and categories with equal sums in the order of               *)
(* OWNERSHIP_COLS.                                                          *)
C11_TiesInCanonicalOrder ==
    MacroCall =>
        /\ Descending(out.net_flow)
        /\ \A i, j \in DOMAIN out.net_flow :
              (i < j /\ out.net_flow[i].Flow = out.net_flow[j].Flow) =>
                  CanonicalIndex(out.net_flow[i].Kategori)
                      < CanonicalIndex(out.net_flow[j].Kategori)

(* C11, amended: net_flow lists each of the 18 categories once, by summed   *)
(* delta, descending; the order of categories with equal sums is not        *)
(* determined (the sort is not stable).                                     *)
C11_DescendingOrder ==
    MacroCall =>
        /\ Descending(out.net_flow)
        /\ Len(out.net_flow) = Len(OWNERSHIP_COLS)
        /\ {out.net_flow[i].Kategori : i \in DOMAIN out.net_flow} = Range(OWNERSHIP_COLS)
        /\ \A i \in DOMAIN out.net_flow :
              out.net_flow[i].Flow =
                  ColSum(sel.rows, Chg(out.net_flow[i].Kategori))

\* a table with a positive and a negative sum and, between them, equal sums
\* that are not in the order of OWNERSHIP_COLS
C11_Witness ==
    /\ MacroCall
    /\ out.net_flow[1].Flow > 0
    /\ out.net_flow[Len(out.net_flow)].Flow < 0
    /\ \E i, j \in DOMAIN out.net_flow :
          /\ i < j
          /\ out.net_flow[i].Flow = out.net_flow[j].Flow
          /\ CanonicalIndex(out.net_flow[i].Kategori)
                > CanonicalIndex(out.net_flow[j].Kategori)

-----------------------------------------------------------------------------
(* The cumulative flow *)

\* the lines of cum_flow that carry one of the two series
CumLines(name) ==
    LET P(l) == l.Kategori = name IN SelectSeq(out.cum_flow, P)

\* the sum of column c over the rows dated k or earlier, in any row order
SumUpTo(c, k) ==
    LET P(row) == DateOrd(row[DATE]) <= DateOrd(k)
    IN  ColSum(SelectSeq(sel.rows, P), c)

CumSeriesRight(c, name) ==
    LET ls == CumLines(name)
    IN  /\ {ls[i].Date : i \in DOMAIN ls} = {sel.rows[i][DATE] : i \in DOMAIN sel.rows}
        /\ \A i, j \in DOMAIN ls : ls[i].Date = ls[j].Date => i = j
        /\ \A i \in DOMAIN ls : ls[i].Cum = SumUpTo(c, ls[i].Date)

(* C12: cum_flow has, for each of the local and the foreign series, exactly *)
(* one line per date that occurs in the rows and none for any other date,   *)
(* and the value at a date is the sum of Total_Local_chg (Total_Foreign_chg)*)
(* over all rows dated that day or earlier, whatever the order of the rows. *)
C12_CumulativeFlow ==
    MacroCall =>
        /\ CumSeriesRight(TOTAL_LOCAL_CHG, <<"Total", "_", "Local", " (Net)">>)
        /\ CumSeriesRight(TOTAL_FOREIGN_CHG, <<"Total", "_", "Foreign", " (Net)">>)
        /\ Len(out.cum_flow) = 2 * Cardinality({sel.rows[i][DATE] : i \in DOMAIN sel.rows})

\* two dates, the later one first in the rows, and a running total that
\* differs from the sum of its own date
C12_Witness ==
    /\ MacroCall
    /\ \E i, j \in DOMAIN sel.rows :
          i < j /\ DateOrd(sel.rows[i][DATE]) > DateOrd(sel.rows[j][DATE])
    /\ \E i \in DOMAIN out.cum_flow :
          LET l == out.cum_flow[i]
              P(row) == row[DATE] = l.Date
          IN  /\ l.Kategori = <<"Total", "_", "Foreign", " (Net)">>
              /\ l.Cum # 0
              /\ l.Cum # ColSum(SelectSeq(sel.rows, P), TOTAL_FOREIGN_CHG)

-----------------------------------------------------------------------------
(* The screener filter *)

ScreenerCall == out.fn = "df_screener_filtered"

\* a is b with some of its rows left out, the others in place
RECURSIVE IsSubSeq(_, _)
IsSubSeq(a, b) ==
    IF a = <<>> THEN TRUE
    ELSE IF b = <<>> THEN FALSE
    ELSE IF Head(a) = Head(b) THEN IsSubSeq(Tail(a), Tail(b))
    ELSE IsSubSeq(a, Tail(b))

\* the filters of the call with one of the four constraints taken away
Relaxed ==
    { df_screener_filtered(sel, {}, out.selected_buyers, out.selected_sellers,
                           out.min_rotation_vol),
      df_screener_filtered(sel, out.selected_stocks, {}, out.selected_sellers,
                           out.min_rotation_vol),
      df_screener_filtered(sel, out.selected_stocks, out.selected_buyers, {},
                           out.min_rotation_vol),
      df_screener_filtered(sel, out.selected_stocks, out.selected_buyers,
                           out.selected_sellers, 0) }

Unconstrained ==
    /\ out.selected_stocks = {} /\ out.selected_buyers = {}
    /\ out.selected_sellers = {} /\ out.min_rotation_vol = 0

(* C13: the screener's result is the year's rows with some left out; it has *)
(* no row that the same filters with one constraint taken away (the code    *)
(* set, the top-buyer set, the top-seller set or the positive minimum       *)
(* volume) would drop, so a constraint more is never a row more; with no    *)
(* constraint at all the result is the year's rows.                         *)
C13_ScreenerNarrows ==
    ScreenerCall =>
        /\ out.table.cols = sel.cols
        /\ IsSubSeq(out.table.rows, sel.rows)
        /\ \A r \in Relaxed :
              /\ IsSubSeq(out.table.rows, r.rows)
              /\ Len(out.table.rows) <= Len(r.rows)
        /\ Unconstrained => out.table = sel

\* a code set, a buyer set and a minimum volume together keep one of two
\* rows, and taking one of the constraints away brings the other row back
C13_Witness ==
    /\ ScreenerCall
    /\ out.selected_stocks # {} /\ out.selected_buyers # {}
    /\ out.min_rotation_vol > 0
    /\ Len(out.table.rows) = 1
    /\ Len(sel.rows) = 2
    /\ \E r \in Relaxed : Len(r.rows) = 2

-----------------------------------------------------------------------------
(* The monthly sector flow *)

MonthlyCall == out.fn = "calculate_monthly_sector_flow"

\* the sum of Total_chg over the rows of sector k dated in the month of m
SectorMonthSum(k, m) ==
    LET P(row) == row[SECTOR] = k /\ MonthIndex(row[DATE]) = MonthIndex(m)
    IN  ColSum(SelectSeq(sel.rows, P), TOTAL_CHG)

(* C14: when the rows have at least two distinct sectors, every line of the *)
(* monthly sector flow carries the sum of Total_chg over the rows of its    *)
(* sector dated in its calendar month, no (sector, month) pair has two      *)
(* lines, and the values of all lines add up to the sum of Total_chg over   *)
(* the rows.                                                                *)
C14_MonthlySectorFlow ==
    (MonthlyCall /\ SECTOR \in sel.cols /\ Cardinality(SelSectors) >= 2) =>
        /\ out.table # <<>>
        /\ \A j \in DOMAIN out.table :
              /\ out.table[j].Month[3] = 1
              /\ out.table[j].Flow = SectorMonthSum(out.table[j].Sector, out.table[j].Month)
        /\ \A i, j \in DOMAIN out.table :
              (out.table[i].Sector = out.table[j].Sector
                /\ out.table[i].Month = out.table[j].Month) => i = j
        /\ TableTotal = ColSum(sel.rows, TOTAL_CHG)

\* two sectors, one of them with rows in two months and a line for a month
\* between them in which it has no row; another line sums two rows
C14_Witness ==
    /\ MonthlyCall
    /\ Cardinality(SelSectors) >= 2
    /\ TableTotal # 0
    /\ \E i, j, k \in DOMAIN out.table :
          /\ out.table[i].Sector = out.table[j].Sector
          /\ out.table[j].Sector = out.table[k].Sector
          /\ MonthIndex(out.table[i].Month) < MonthIndex(out.table[j].Month)
          /\ MonthIndex(out.table[j].Month) < MonthIndex(out.table[k].Month)
          /\ out.table[i].Flow # 0 /\ out.table[k].Flow # 0
          /\ \A r \in DOMAIN sel.rows :
                ~(sel.rows[r][SECTOR] = out.table[j].Sector
                  /\ MonthIndex(sel.rows[r][DATE]) = MonthIndex(out.table[j].Month))

-----------------------------------------------------------------------------
(* The order of the script: load, gate, year filter, calculations *)

\* the year filter has run, or something it or a calculation writes is set
PastTheGate ==
    \/ pc \in {"ready", "called"}
    \/ sel # EmptyDF
    \/ out # NoCall
    \/ selected_years # {}

(* C15: the year filter, the screener filter and the calculations run only  *)
(* after load_data has returned a dataset that is not empty; when load_data *)
(* returns 'error' its dataset is empty, the script reports the error and   *)
(* goes no further than the stop of the gate; and the years the filter uses *)
(* are never none: an empty selection is replaced by the latest year alone, *)
(* so the calculations always get the rows of at least one year.            *)
C15_LoadGate ==
    /\ PastTheGate =>
          /\ ret.status = "success"
          /\ ~IsEmpty(ret.df)
          /\ shown = <<"toast">>
          /\ selected_years # {}
          /\ selected_years \subseteq all_years(ret.df)
          /\ picked = {} => selected_years = {max_year(ret.df)}
          /\ picked # {} => selected_years = picked
          /\ sel.rows # <<>>
          /\ sel = Filter(ret.df, [i \in DOMAIN ret.df.rows |->
                                     Year(ret.df.rows[i][DATE]) \in selected_years])
    /\ ret.status = "error" =>
          /\ IsEmpty(ret.df)
          /\ pc \in {"returned", "sidebar", "stopped"}
          /\ pc # "returned" => shown[1] = "error"
    /\ pc = "stopped" => IsEmpty(ret.df) /\ shown[Len(shown)] = "warning"
    /\ out # NoCall => pc = "called"

\* a calculation has run on the latest of two years after the user had
\* cleared the year selection
C15_Witness ==
    /\ pc = "called"
    /\ out.fn = "calculate_macro_flow"
    /\ picked = {}
    /\ Cardinality(all_years(ret.df)) = 2
    /\ Len(sel.rows) < Len(ret.df.rows)

====
